---- MODULE Spec2Model ----
(***************************************************************************)
(* Model of the opspilot agent service: the transition-table state machine *)
(* (state_machine.py), the orchestrator run loop (agent.py) and the        *)
(* execute / approve endpoints that drive it (main.py), for one Run.       *)
(*                                                                         *)
(* Persistence is modelled at the level of committed rows: an action ends  *)
(* at a commit (or at a blocking call that follows one), so the rows other *)
(* requests can read are exactly the committed ones.  A persisted state    *)
(* tag is read back as the machine state of the same name.                 *)
(***************************************************************************)
EXTENDS Integers, Sequences, FiniteSets, TLC

(***************************************************************************)
(* Bounds of the model.                                                    *)
(***************************************************************************)
\* longest transition history explored for the stand-alone state machine
MaxHist == 5
\* number of request threads: thread 1 serves execute requests, the others
\* serve approve requests
NumProcs == 2
\* number of endpoint requests (of helper invocations, when the helper is
\* exercised on its own) issued in one behaviour
MaxCalls == 3
\* most parameters one raw input mapping supplies when validation is
\* exercised on its own
MaxParams == 3
\* rounds of planning, execution and evaluation a Run has completed when its
\* gated plan is followed by concurrent approvals
RoundsBeforeGate == 7

(***************************************************************************)
(* state_machine.py                                                        *)
(***************************************************************************)
PLAN == "plan"
EXECUTE_TOOL == "execute_tool"
EVALUATE == "evaluate"
NEEDS_APPROVAL == "needs_approval"
DONE == "done"
FAILED == "failed"

State == {PLAN, EXECUTE_TOOL, EVALUATE, NEEDS_APPROVAL, DONE, FAILED}

\* a table in which a failed run can be planned again
TRANSITIONS_failed_recovers ==
    [s \in State |->
        CASE s = PLAN -> {EXECUTE_TOOL, DONE, FAILED}
          [] s = EXECUTE_TOOL -> {EVALUATE, FAILED}
          [] s = EVALUATE -> {PLAN, NEEDS_APPROVAL, DONE, FAILED}
          [] s = NEEDS_APPROVAL -> {EXECUTE_TOOL, FAILED}
          [] s = DONE -> {}
          [] s = FAILED -> {PLAN}]

\* a table that offers no way out of the approval pause but execution
TRANSITIONS_pause_cannot_fail ==
    [s \in State |->
        CASE s = PLAN -> {EXECUTE_TOOL, DONE, FAILED}
          [] s = EXECUTE_TOOL -> {EVALUATE, FAILED}
          [] s = EVALUATE -> {PLAN, NEEDS_APPROVAL, DONE, FAILED}
          [] s = NEEDS_APPROVAL -> {EXECUTE_TOOL}
          [] s = DONE -> {}
          [] s = FAILED -> {}]

TRANSITIONS ==
    [s \in State |->
        CASE s = PLAN -> {EXECUTE_TOOL, DONE, FAILED}
          [] s = EXECUTE_TOOL -> {EVALUATE, FAILED}
          [] s = EVALUATE -> {PLAN, NEEDS_APPROVAL, DONE, FAILED}
          [] s = NEEDS_APPROVAL -> {EXECUTE_TOOL, FAILED}
          [] s = DONE -> {}
          [] s = FAILED -> {}]

\* StateMachine.__init__
StateMachine(initial_state) ==
    [current_state |-> initial_state, transition_history |-> <<initial_state>>]

can_transition(from_state, to_state) ==
    to_state \in TRANSITIONS[from_state]

\* a transition that records the target in the history before validating it
transition_unchecked_history(m, to_state) ==
    IF ~can_transition(m.current_state, to_state)
    THEN [raised |-> TRUE,
          machine |-> [m EXCEPT !.transition_history = Append(@, to_state)]]
    ELSE [raised |-> FALSE,
          machine |-> [current_state |-> to_state,
                       transition_history |-> Append(m.transition_history, to_state)]]

\* StateMachine.transition: the machine after the call and whether the call
\* raised ValueError
transition(m, to_state) ==
    IF ~can_transition(m.current_state, to_state)
    THEN [raised |-> TRUE, machine |-> m]
    ELSE [raised |-> FALSE,
          machine |-> [current_state |-> to_state,
                       transition_history |-> Append(m.transition_history, to_state)]]

\* a terminal test that does not know DONE
is_terminal_failed_only(s) == s = FAILED

is_terminal(s) == s \in {DONE, FAILED}

\* a reset that moves to PLAN through the history instead of clearing it
reset_keeps_history(m) ==
    [current_state |-> PLAN, transition_history |-> Append(m.transition_history, PLAN)]

reset(m) == [current_state |-> PLAN, transition_history |-> <<PLAN>>]


(***************************************************************************)
(* tools/__init__.py: the tool registry                                    *)
(***************************************************************************)
ToolNames == {"search_logs", "query_metrics", "create_ticket", "generate_report"}

MetricEnum == {"error_rate", "response_time", "cpu_usage", "memory_usage"}
SeverityEnum == {"critical", "high", "medium", "low"}

\* a JSON value: its Python type and a printable content
Str(v) == [type |-> "string", val |-> v]
Arr(v) == [type |-> "array", val |-> v]
Num(v) == [type |-> "number", val |-> v]

NoDefault == [type |-> "absent", val |-> ""]

\* one schema property: declared type, enum ({} when the schema has none) and
\* default (NoDefault when the schema has none)
Prop(type, enum, default) == [type |-> type, enum |-> enum, default |-> default]

TOOLS ==
    [n \in ToolNames |->
        CASE n = "search_logs" ->
               [properties |-> [k \in {"query", "pattern", "time_range"} |->
                    IF k = "time_range" THEN Prop("string", {}, Str("1h"))
                    ELSE Prop("string", {}, NoDefault)],
                required |-> {},
                requires_approval |-> FALSE]
          [] n = "query_metrics" ->
               [properties |->
                    [k \in {"metric", "metric_type", "metric_name", "start", "end", "interval"} |->
                        CASE k = "start" -> Prop("string", {}, Str("1h"))
                          [] k = "end" -> Prop("string", {}, Str("now"))
                          [] k = "interval" -> Prop("string", {}, Str("5m"))
                          [] OTHER -> Prop("string", MetricEnum, NoDefault)],
                required |-> {},
                requires_approval |-> FALSE]
          [] n = "create_ticket" ->
               [properties |->
                    [k \in {"title", "description", "severity", "priority", "tags"} |->
                        CASE k \in {"severity", "priority"} -> Prop("string", SeverityEnum, NoDefault)
                          [] k = "tags" -> Prop("array", {}, NoDefault)
                          [] OTHER -> Prop("string", {}, NoDefault)],
                required |-> {"title", "description"},
                requires_approval |-> TRUE]
          [] n = "generate_report" ->
               [properties |-> [k \in {"findings"} |-> Prop("array", {}, NoDefault)],
                required |-> {"findings"},
                requires_approval |-> FALSE]]

\* a registry lookup that treats no tool as approval-gated
requires_approval_never(tool_name) == FALSE

requires_approval(tool_name) ==
    IF tool_name \notin ToolNames THEN FALSE ELSE TOOLS[tool_name].requires_approval

\* the parameters validate_tool_inputs keeps: supplied or defaulted
KeptParams(schema, inputs) ==
    {k \in DOMAIN schema.properties :
        k \in DOMAIN inputs \/ schema.properties[k].default # NoDefault}

\* a lookup in which a schema default overrides the supplied value
ParamValue_default_first(schema, inputs, k) ==
    IF schema.properties[k].default # NoDefault
    THEN schema.properties[k].default
    ELSE inputs[k]

ParamValue(schema, inputs, k) ==
    IF k \in DOMAIN inputs THEN inputs[k] ELSE schema.properties[k].default

ParamOK(schema, inputs, k) ==
    LET cfg == schema.properties[k]
        value == ParamValue(schema, inputs, k)
    IN /\ (cfg.type = "string" => value.type = "string")
       /\ (cfg.type = "array" => value.type = "array")
       /\ (cfg.enum # {} => (value.type = "string" /\ value.val \in cfg.enum))

\* a validation that lets every plan through as it is
validate_tool_inputs_unchecked(tool_name, inputs) ==
    [raised |-> FALSE, validated |-> inputs]

\* validate_tool_inputs: raised (ValueError), else the validated mapping
validate_tool_inputs(tool_name, inputs) ==
    IF tool_name \notin ToolNames
    THEN [raised |-> TRUE, validated |-> <<>>]
    ELSE LET schema == TOOLS[tool_name] IN
         IF \E k \in schema.required : k \notin DOMAIN inputs
         THEN [raised |-> TRUE, validated |-> <<>>]
         ELSE IF \E k \in KeptParams(schema, inputs) : ~ParamOK(schema, inputs, k)
         THEN [raised |-> TRUE, validated |-> <<>>]
         ELSE [raised |-> FALSE,
               validated |-> [k \in KeptParams(schema, inputs) |->
                                 ParamValue(schema, inputs, k)]]


(***************************************************************************)
(* State                                                                   *)
(***************************************************************************)
VARIABLES
    sm,          \* a stand-alone StateMachine object
    smCall,      \* the last call made on it: what was asked, on which machine
    runStatus,   \* Run.status, as committed
    steps,       \* the Run's Step rows, in creation order (row id = index)
    toolCalls,   \* the Run's ToolCall rows, in creation order (row id = index)
    retry,       \* the retry counters: tool-call id -> recorded attempts
    pc,          \* where each request thread is
    agent,       \* each thread's Agent: its StateMachine and current_step_number
    cur,         \* the rows the thread's handler holds
    last,        \* the last thing that happened, and the thread that did it
    calls,       \* requests issued so far
    everNeedsApproval, \* Run.status has been NEEDS_APPROVAL at some point
    backoff      \* the sleep before the latest dispatch: the ToolCall, the
                 \* delay, and the total slept for that ToolCall's retries

vars == <<sm, smCall, runStatus, steps, toolCalls, retry, pc, agent, cur,
          last, calls, everNeedsApproval, backoff>>

smVars == <<sm, smCall>>
runVars == <<runStatus, steps, toolCalls, retry, pc, agent, cur, last, calls,
             everNeedsApproval, backoff>>

Procs == 1..NumProcs
Executor == 1
Approvers == Procs \ {Executor}

\* models.py: RunStatus, ToolCallStatus
RUNNING == "running"
PENDING == "pending"

SUCCESS == "success"

\* agent.py: the safety limit and the retry cap
\* a ceiling that lets one more PLAN entry through
max_steps_one_more == 10 + 1

max_steps == 10

\* a cap that lets one more retry through
max_retries_one_more == 3 + 1

max_retries == 3

\* Step.reasoning left unset (NULL)
None == "<None>"

\* a Step row; notes counts the "[Evaluation] ..." texts appended to reasoning
\* and origin records which code created the row
Step(state, step_number, reasoning, origin) ==
    [state |-> state, step_number |-> step_number, reasoning |-> reasoning,
     notes |-> 0, origin |-> origin]

\* a ToolCall row as _handle_plan_state creates it; streak counts the failed
\* dispatches of the row that no successful one has followed yet, slept the
\* time units the loop has slept before the dispatches of such a streak
ToolCall(step_id, tool_name, inputs) ==
    [step_id |-> step_id, tool_name |-> tool_name, inputs |-> inputs,
     status |-> PENDING, outputs |-> "null", executed_at |-> FALSE,
     streak |-> 0, slept |-> 0]

\* no dispatch yet
NoBackoff == [tc |-> 0, delay |-> 0, total |-> 0]

\* a backoff that doubles once too often
backoff_delay_doubled(attempts) == IF attempts > 0 THEN 2 ^ attempts ELSE 0

\* the time.sleep before a dispatch: 2 ** (attempts - 1) when attempts > 0
backoff_delay(attempts) == IF attempts > 0 THEN 2 ^ (attempts - 1) ELSE 0

\* a GET that never finds the key
getAttempts_never_found(r, key) == 0

\* redis GET / SETEX / DELETE on the key retry:<run>:<tool-call>; a counter
\* lives for an hour, longer than a behaviour of this model
getAttempts(r, key) == IF key \in DOMAIN r THEN r[key] ELSE 0

\* a SETEX that is lost
recordAttempt_lost(r, key, n) == r

recordAttempt(r, key, n) == [k \in DOMAIN r \cup {key} |-> IF k = key THEN n ELSE r[k]]

\* a DELETE that leaves the counter in place
clear_keeps_counter(r, key) == r

clear(r, key) == [k \in DOMAIN r \ {key} |-> r[k]]

NoRows == [step |-> 0, tc |-> 0]

\* an event: the thread, what it did, the Step and ToolCall rows concerned,
\* and a detail (a reason, a tool name, a machine state)
Did(p, op, step, tc, arg, n) ==
    [p |-> p, op |-> op, step |-> step, tc |-> tc, arg |-> arg, n |-> n]

\* Agent.__init__ before the Run's Steps are read
FreshAgent == [state_machine |-> StateMachine(PLAN), current_step_number |-> 0]

\* the Steps a query "order by step_number desc ... first()" may return
LatestSteps(stps) ==
    {i \in DOMAIN stps : \A j \in DOMAIN stps : stps[j].step_number <= stps[i].step_number}

\* the Steps a query "step_number == n ... first()" may return
StepsNumbered(stps, n) == {i \in DOMAIN stps : stps[i].step_number = n}

\* Agent.__init__: rehydration from the Step row the query returned (0: none)
Agent(stps, i) ==
    IF i = 0 THEN FreshAgent
    ELSE [state_machine |-> [StateMachine(PLAN) EXCEPT !.current_state = stps[i].state],
          current_step_number |-> stps[i].step_number]

\* a helper that appends its Step whatever the machine state is
transition_to_failed_always(a, stps, reason) ==
    [agent |-> [a EXCEPT !.state_machine.current_state = FAILED],
     steps |-> Append(stps, Step(FAILED, a.current_step_number + 1, reason, "helper")),
     noop |-> FALSE, raised |-> FALSE]

\* a helper that logs the reason and does nothing else
transition_to_failed_skipped(a, stps, reason) ==
    [agent |-> a, steps |-> stps, noop |-> TRUE, raised |-> FALSE]

\* a helper that takes the number of its Step as the new step counter
transition_to_failed_counts(a, stps, reason) ==
    IF a.state_machine.current_state \in {DONE, FAILED}
    THEN [agent |-> a, steps |-> stps, noop |-> TRUE, raised |-> FALSE]
    ELSE [agent |-> [a EXCEPT !.state_machine.current_state = FAILED,
                              !.current_step_number = @ + 1],
          steps |-> Append(stps, Step(FAILED, a.current_step_number + 1, reason, "helper")),
          noop |-> FALSE, raised |-> FALSE]

\* Agent._transition_to_failed up to its first commit: the Agent and the Step
\* rows after it, whether it returned early, whether transition() raised
transition_to_failed(a, stps, reason) ==
    IF a.state_machine.current_state \in {DONE, FAILED}
    THEN [agent |-> a, steps |-> stps, noop |-> TRUE, raised |-> FALSE]
    ELSE LET r == transition(a.state_machine, FAILED) IN
         IF r.raised
         THEN [agent |-> a, steps |-> stps, noop |-> FALSE, raised |-> TRUE]
         ELSE [agent |-> [a EXCEPT !.state_machine = r.machine],
               steps |-> Append(stps, Step(FAILED, a.current_step_number + 1,
                                           reason, "helper")),
               noop |-> FALSE, raised |-> FALSE]

(***************************************************************************)
(* What the collaborators may answer                                       *)
(***************************************************************************)
\* the planning oracle: a transport fault, an empty or unparseable answer, or
\* a JSON object ("absent": the object has no "action")
PlannedCalls ==
    { <<None, <<>> >>,
      <<"search_logs", <<>> >>,
      <<"search_logs", [k \in {"query"} |-> Num("5")]>>,
      <<"create_ticket", [k \in {"title", "description"} |-> Str("t")]>>,
      <<"create_ticket", [k \in {"title"} |-> Str("t")]>>,
      <<"restart_server", <<>> >> }

PlanResponses ==
    {[fault |-> f, action |-> "absent", tool_name |-> None, inputs |-> <<>>] :
        f \in {"api_error", "empty", "unparseable", "none"}}
    \cup {[fault |-> "none", action |-> a, tool_name |-> None, inputs |-> <<>>] :
        a \in {"done", "restart"}}
    \cup {[fault |-> "none", action |-> "call_tool", tool_name |-> c[1], inputs |-> c[2]] :
        c \in PlannedCalls}

\* the evaluation oracle, likewise ("absent": no "decision", no "reasoning");
\* the reasoning text matters to the Run only with the decision "failed"
EvalResponses ==
    {[fault |-> f, decision |-> "absent", reasoning |-> "absent"] :
        f \in {"api_error", "empty", "unparseable", "none"}}
    \cup {[fault |-> "none", decision |-> d, reasoning |-> "no progress"] :
        d \in {"continue", "done", "needs_approval", "failed", "maybe", "retry"}}
    \cup {[fault |-> "none", decision |-> "failed", reasoning |-> r] :
        r \in {"absent", ""}}

\* what a tool dispatch may end in
DispatchOutcomes == {"success", "timeout", "error"}

\* the reasons an approval request may carry
Reasons == {"too risky", "duplicate"}

(***************************************************************************)
(* Init                                                                    *)
(***************************************************************************)
InitRun ==
    /\ runStatus = RUNNING
    /\ steps = <<>>
    /\ toolCalls = <<>>
    /\ retry = <<>>
    /\ pc = [p \in Procs |-> "idle"]
    /\ agent = [p \in Procs |-> FreshAgent]
    /\ cur = [p \in Procs |-> NoRows]
    /\ last = Did(0, "none", 0, 0, "", 0)
    /\ calls = 0
    /\ everNeedsApproval = FALSE
    /\ backoff = NoBackoff

\* main.py create_run, then nothing has been requested yet
Init ==
    /\ sm = StateMachine(PLAN)
    /\ smCall = [op |-> "init", to |-> PLAN, before |-> StateMachine(PLAN), raised |-> FALSE]
    /\ InitRun


(***************************************************************************)
(* agent.py: the run loop                                                  *)
(***************************************************************************)
StateOf(p) == agent[p].state_machine.current_state
StepNo(p) == agent[p].current_step_number

\* the thread is inside Agent.run_agent
InLoop(p) == pc[p] \in {"loop", "dispatch", "joining", "tf_return", "tf_raise", "raising"}

\* run_agent's loop test passes and neither the pause check nor the step
\* ceiling stops the iteration: the handler of state s runs
Runs(p, s) ==
    /\ pc[p] = "loop"
    /\ StateOf(p) = s
    /\ StepNo(p) < max_steps

\* the thread goes through _transition_to_failed with the Agent a and the Step
\* rows stps its session holds; the helper's first commit writes them.  mode
\* is what follows the helper: the handler returns ("return") or the fault
\* that brought the thread here is re-raised ("raise")
Fail(p, a, stps, reason, mode) ==
    LET r == transition_to_failed(a, stps, reason) IN
    /\ agent' = [agent EXCEPT ![p] = r.agent]
    /\ steps' = r.steps
    /\ pc' = [pc EXCEPT ![p] =
                IF mode = "raise" \/ r.raised
                THEN (IF r.noop \/ r.raised THEN "raising" ELSE "tf_raise")
                ELSE (IF r.noop THEN "loop" ELSE "tf_return")]
    /\ last' = Did(p, IF mode = "raise" THEN "fault" ELSE "failed",
                   Len(r.steps), 0, reason, a.current_step_number)

\* a handler ends with state_machine.transition(target): stpsOk are the Step
\* rows it commits when the call returns, stpsRaised those its session holds
\* when the call raises and run_agent's except clause takes over
Move(p, a, target, stpsRaised, stpsOk, did) ==
    LET r == transition(a.state_machine, target) IN
    IF r.raised
    THEN Fail(p, a, stpsRaised, "Unexpected error: Invalid transition", "raise")
    ELSE /\ agent' = [agent EXCEPT ![p] = [a EXCEPT !.state_machine = r.machine]]
         /\ steps' = stpsOk
         /\ pc' = [pc EXCEPT ![p] = "loop"]
         /\ last' = did

\* run_agent: the safety check on current_step_number
MaxSteps(p) ==
    /\ pc[p] = "loop"
    /\ StateOf(p) \notin {DONE, FAILED, NEEDS_APPROVAL}
    /\ StepNo(p) >= max_steps
    /\ Fail(p, agent[p], steps, "Max steps (10) exceeded", "return")
    /\ UNCHANGED <<runStatus, toolCalls, retry, cur, calls, everNeedsApproval, backoff, smVars>>

\* one loop iteration in PLAN: the step counter is incremented, then
\* _handle_plan_state runs
PlanStep(p) ==
    /\ Runs(p, PLAN)
    /\ \E plan \in PlanResponses :
        LET a == [agent[p] EXCEPT !.current_step_number = @ + 1]
            n == a.current_step_number
            stps == Append(steps, Step(PLAN, n, "plan", "plan"))
            sid == Len(stps)
            v == validate_tool_inputs(plan.tool_name, plan.inputs)
        IN
        IF plan.fault # "none"
        THEN /\ Fail(p, a, steps, plan.fault, "return")
             /\ UNCHANGED toolCalls
        ELSE IF plan.action = "absent"
        THEN /\ Fail(p, a, steps, "Invalid plan format: missing 'action'", "return")
             /\ UNCHANGED toolCalls
        ELSE IF plan.action = "done"
        THEN /\ Move(p, a, DONE, stps, [stps EXCEPT ![sid].state = DONE],
                     Did(p, "plan_done", sid, 0, "", n))
             /\ UNCHANGED toolCalls
        ELSE IF plan.action = "call_tool"
        THEN IF plan.tool_name = None
             THEN /\ Fail(p, a, stps, "Invalid plan: missing tool_name", "return")
                  /\ UNCHANGED toolCalls
             ELSE IF v.raised
             THEN /\ Fail(p, a, stps, "Invalid tool inputs", "return")
                  /\ UNCHANGED toolCalls
             ELSE /\ toolCalls' = Append(toolCalls, ToolCall(sid, plan.tool_name, v.validated))
                  /\ Move(p, a, EXECUTE_TOOL, stps, stps,
                          Did(p, "plan_call_tool", sid, Len(toolCalls) + 1, plan.tool_name, n))
        ELSE /\ Fail(p, a, stps, "Unknown action", "return")
             /\ UNCHANGED toolCalls
    /\ UNCHANGED <<runStatus, retry, cur, calls, everNeedsApproval, backoff, smVars>>

\* _handle_execute_state up to its first commit: the current Step and its
\* pending ToolCall are looked up and the ToolCall is marked RUNNING
ExecuteBegin(p) ==
    /\ Runs(p, EXECUTE_TOOL)
    /\ IF StepsNumbered(steps, StepNo(p)) = {}
       THEN /\ Fail(p, agent[p], steps, "No current step found", "return")
            /\ UNCHANGED <<toolCalls, cur>>
       ELSE \E sid \in StepsNumbered(steps, StepNo(p)) :
            LET pend == {t \in DOMAIN toolCalls :
                            /\ toolCalls[t].step_id = sid
                            /\ toolCalls[t].status = PENDING}
            IN
            IF pend = {}
            THEN /\ Fail(p, agent[p], steps, "No pending tool call found", "return")
                 /\ UNCHANGED <<toolCalls, cur>>
            ELSE \E t \in pend :
                 /\ toolCalls' = [toolCalls EXCEPT ![t].status = RUNNING]
                 /\ cur' = [cur EXCEPT ![p] = [step |-> sid, tc |-> t]]
                 /\ pc' = [pc EXCEPT ![p] = "dispatch"]
                 /\ last' = Did(p, "execute_begin", sid, t, "", StepNo(p))
                 /\ UNCHANGED <<agent, steps>>
    /\ UNCHANGED <<runStatus, retry, calls, everNeedsApproval, backoff, smVars>>

\* the rest of _handle_execute_state: the retry counter is read (and the
\* backoff slept), then the approval gate, else the dispatch and its outcome.
\* The events of a dispatch carry the failed dispatches that preceded it.
ExecuteFinish(p) ==
    /\ pc[p] = "dispatch"
    /\ LET t == cur[p].tc
           sid == cur[p].step
           tool == toolCalls[t].tool_name
           attempts == getAttempts(retry, t)
           before == toolCalls[t].streak
           a == agent[p]
           delay == backoff_delay(attempts)
           sleptNow == toolCalls[t].slept + delay
       IN
       IF requires_approval(tool)
       THEN \* pre-dispatch gate
            LET stps == [steps EXCEPT ![sid].state = NEEDS_APPROVAL] IN
            /\ runStatus' = NEEDS_APPROVAL
            /\ everNeedsApproval' = TRUE
            /\ toolCalls' = [toolCalls EXCEPT ![t].status = PENDING,
                                              ![t].slept = sleptNow]
            /\ Move(p, a, NEEDS_APPROVAL, stps, stps, Did(p, "gate", sid, t, tool, before))
            /\ UNCHANGED retry
       ELSE \E outcome \in DispatchOutcomes :
            LET \* the second gate and the transition sit inside the try block:
                \* a ValueError of transition() is handled like a tool error
                target == IF requires_approval(tool) THEN NEEDS_APPROVAL ELSE EVALUATE
                moved == transition(a.state_machine, target)
                succeeded == outcome = "success" /\ ~moved.raised
                withOutputs == IF outcome = "success"
                               THEN [toolCalls EXCEPT ![t].outputs = "result",
                                                      ![t].status = SUCCESS,
                                                      ![t].executed_at = TRUE]
                               ELSE toolCalls
            IN
            IF succeeded
            THEN /\ toolCalls' = [withOutputs EXCEPT ![t].streak = 0, ![t].slept = 0]
                 /\ retry' = clear(retry, t)
                 /\ runStatus' = IF target = NEEDS_APPROVAL THEN NEEDS_APPROVAL ELSE runStatus
                 /\ everNeedsApproval' = (everNeedsApproval \/ target = NEEDS_APPROVAL)
                 /\ Move(p, a, target, steps, [steps EXCEPT ![sid].state = target],
                         Did(p, "dispatch_success", sid, t, tool, before))
            ELSE IF attempts < max_retries
            THEN /\ toolCalls' = [withOutputs EXCEPT ![t].status = PENDING,
                                                     ![t].streak = @ + 1,
                                                     ![t].slept = sleptNow]
                 /\ retry' = IF outcome = "success"
                             THEN recordAttempt(clear(retry, t), t, attempts + 1)
                             ELSE recordAttempt(retry, t, attempts + 1)
                 /\ pc' = [pc EXCEPT ![p] = "loop"]
                 /\ last' = Did(p, "dispatch_retry", sid, t, outcome, before)
                 /\ UNCHANGED <<agent, steps, runStatus, everNeedsApproval>>
            ELSE /\ toolCalls' = [withOutputs EXCEPT
                                     ![t].status = FAILED,
                                     ![t].streak = @ + 1,
                                     ![t].slept = 0,
                                     ![t].outputs = IF outcome = "timeout" THEN @ ELSE "error"]
                 /\ retry' = IF outcome = "success" THEN clear(retry, t) ELSE retry
                 /\ LET r == transition_to_failed(a, steps,
                                IF outcome = "timeout" THEN "Tool timed out after retries"
                                ELSE "Tool error")
                    IN /\ agent' = [agent EXCEPT ![p] = r.agent]
                       /\ steps' = r.steps
                       /\ pc' = [pc EXCEPT ![p] = IF r.noop THEN "loop" ELSE "tf_return"]
                       /\ last' = Did(p, "dispatch_exhausted", sid, t, outcome, before)
                 /\ UNCHANGED <<runStatus, everNeedsApproval>>
    /\ backoff' = [tc |-> cur[p].tc,
                   delay |-> backoff_delay(getAttempts(retry, cur[p].tc)),
                   total |-> toolCalls[cur[p].tc].slept
                             + backoff_delay(getAttempts(retry, cur[p].tc))]
    /\ cur' = [cur EXCEPT ![p] = NoRows]
    /\ UNCHANGED <<calls, smVars>>

\* _execute_tool_with_timeout on a tool function that never returns: after the
\* sleep and the gate test the call is submitted, future.result(timeout)
\* raises TimeoutError at the deadline, future.cancel() cannot cancel a running
\* call, and leaving the "with ThreadPoolExecutor" block waits for the worker
\* (shutdown(wait=True)) before the error reaches the handler
DispatchNeverReturns(p) ==
    /\ pc[p] = "dispatch"
    /\ ~requires_approval(toolCalls[cur[p].tc].tool_name)
    /\ pc' = [pc EXCEPT ![p] = "joining"]
    /\ backoff' = [tc |-> cur[p].tc,
                   delay |-> backoff_delay(getAttempts(retry, cur[p].tc)),
                   total |-> toolCalls[cur[p].tc].slept
                             + backoff_delay(getAttempts(retry, cur[p].tc))]
    /\ last' = Did(p, "dispatch_blocked", cur[p].step, cur[p].tc,
                   toolCalls[cur[p].tc].tool_name, toolCalls[cur[p].tc].streak)
    /\ UNCHANGED <<runStatus, steps, toolCalls, retry, agent, cur, calls,
                   everNeedsApproval, smVars>>

\* a decision chain that takes every unknown decision for continue
decision_target_lenient(decision) ==
    CASE decision = "done" -> DONE
      [] decision = "needs_approval" -> NEEDS_APPROVAL
      [] decision = "failed" -> FAILED
      [] OTHER -> PLAN

\* _handle_evaluate_state's decision chain: the state a decision leads to
\* (FAILED: through the helper, for "failed" and for every unknown decision)
decision_target(decision) ==
    CASE decision = "continue" -> PLAN
      [] decision = "done" -> DONE
      [] decision = "needs_approval" -> NEEDS_APPROVAL
      [] OTHER -> FAILED

\* evaluation.get("reasoning", "Agent decided to fail"): the default stands in
\* for a missing key only
failure_reason(ev) ==
    IF ev.reasoning = "absent" THEN "Agent decided to fail" ELSE ev.reasoning

\* one loop iteration in EVALUATE: _handle_evaluate_state
EvaluateStep(p) ==
    /\ Runs(p, EVALUATE)
    /\ \E ev \in EvalResponses :
        LET a == agent[p]
            found == StepsNumbered(steps, StepNo(p))
        IN
        IF ev.fault # "none"
        THEN Fail(p, a, steps, ev.fault, "return")
        ELSE IF ev.decision = "absent"
        THEN Fail(p, a, steps, "Invalid evaluation: missing 'decision'", "return")
        ELSE \E sid \in (IF found = {} THEN {0} ELSE found) :
             LET stps == IF sid = 0 THEN steps
                         ELSE [steps EXCEPT ![sid].notes = @ + 1, ![sid].state = EVALUATE]
             IN
             IF sid # 0 /\ steps[sid].reasoning = None
             THEN \* None += str
                  Fail(p, a, steps, "Unexpected error: TypeError", "raise")
             ELSE IF decision_target(ev.decision) # FAILED
             THEN Move(p, a, decision_target(ev.decision), stps, stps,
                       Did(p, "eval_" \o ev.decision, sid, 0, ev.decision, StepNo(p)))
             ELSE IF ev.decision = "failed"
             THEN Fail(p, a, stps, failure_reason(ev), "return")
             ELSE Fail(p, a, stps, "Unknown decision: " \o ev.decision, "return")
    /\ UNCHANGED <<runStatus, toolCalls, retry, cur, calls, everNeedsApproval, backoff, smVars>>

\* _transition_to_failed after its first commit: Run.status is set and committed
FailedCommit(p) ==
    /\ pc[p] \in {"tf_return", "tf_raise"}
    /\ runStatus' = FAILED
    /\ pc' = [pc EXCEPT ![p] = IF pc[p] = "tf_return" THEN "loop" ELSE "raising"]
    /\ UNCHANGED <<steps, toolCalls, retry, agent, cur, last, calls,
                   everNeedsApproval, backoff, smVars>>

\* run_agent leaves its loop (terminal state, or the pause check breaks out),
\* projects a terminal machine state onto Run.status, commits and returns; the
\* event carries the machine state and the step counter the loop stopped with
LoopExit(p) ==
    /\ pc[p] = "loop"
    /\ StateOf(p) \in {DONE, FAILED, NEEDS_APPROVAL}
    /\ runStatus' = IF is_terminal(StateOf(p)) THEN StateOf(p) ELSE runStatus
    /\ pc' = [pc EXCEPT ![p] = "idle"]
    /\ agent' = [agent EXCEPT ![p] = FreshAgent]
    /\ last' = Did(p, "returned", 0, 0, StateOf(p), StepNo(p))
    /\ UNCHANGED <<steps, toolCalls, retry, cur, calls, everNeedsApproval, backoff, smVars>>

\* run_agent re-raises; execute_run's except clause marks the Run FAILED,
\* approve_run lets the fault through
Propagate(p) ==
    /\ pc[p] = "raising"
    /\ runStatus' = IF p = Executor THEN FAILED ELSE runStatus
    /\ pc' = [pc EXCEPT ![p] = "idle"]
    /\ agent' = [agent EXCEPT ![p] = FreshAgent]
    /\ last' = Did(p, "raised", 0, 0, StateOf(p), StepNo(p))
    /\ UNCHANGED <<steps, toolCalls, retry, cur, calls, everNeedsApproval, backoff, smVars>>


(***************************************************************************)
(* main.py: the endpoints                                                  *)
(***************************************************************************)
\* the Step a query "order by step_number desc, created_at desc" returns
LatestStep(stps) ==
    IF stps = <<>> THEN 0
    ELSE CHOOSE i \in LatestSteps(stps) : \A j \in LatestSteps(stps) : j <= i

\* approve_run's lookup of the ToolCall awaiting approval: the most recently
\* created PENDING one of the Run (0: none)
PendingToolCall(tcs) ==
    LET pend == {t \in DOMAIN tcs : tcs[t].status = PENDING} IN
    IF pend = {} THEN 0 ELSE CHOOSE t \in pend : \A u \in pend : u <= t

\* execute_run on a Run that is not DONE or FAILED: the Run is marked RUNNING,
\* an Agent is built from the stored Steps and run_agent starts.  The invoking
\* layer starts a Run's loop only while no loop of that Run is in progress.
ExecuteRun(p) ==
    /\ p = Executor
    /\ pc[p] = "idle"
    /\ calls < MaxCalls
    /\ runStatus \notin {DONE, FAILED}
    /\ \A q \in DOMAIN pc : ~InLoop(q)
    /\ \E i \in (IF steps = <<>> THEN {0} ELSE LatestSteps(steps)) :
          agent' = [agent EXCEPT ![p] = Agent(steps, i)]
    /\ runStatus' = RUNNING
    /\ pc' = [pc EXCEPT ![p] = "loop"]
    /\ calls' = calls + 1
    /\ last' = Did(p, "execute_run", 0, 0, runStatus, 0)
    /\ UNCHANGED <<steps, toolCalls, retry, cur, everNeedsApproval, backoff, smVars>>

\* execute_run on a Run that is DONE or FAILED: HTTPException(400) is raised
\* inside the try block, so the endpoint's "except Exception" clause catches
\* it, marks the Run FAILED, commits and answers 500
ExecuteRefused(p) ==
    /\ p = Executor
    /\ pc[p] = "idle"
    /\ calls < MaxCalls
    /\ runStatus \in {DONE, FAILED}
    /\ \A q \in DOMAIN pc : ~InLoop(q)
    /\ runStatus' = FAILED
    /\ calls' = calls + 1
    /\ last' = Did(p, "execute_refused", 0, 0, runStatus, 0)
    /\ UNCHANGED <<steps, toolCalls, retry, pc, agent, cur,
                   everNeedsApproval, backoff, smVars>>

\* approve_run's checks fail: HTTP 400
ApproveRefused(p) ==
    /\ p # Executor
    /\ pc[p] = "idle"
    /\ calls < MaxCalls
    /\ \E approved \in BOOLEAN :
         IF runStatus # NEEDS_APPROVAL THEN TRUE
         ELSE IF ~approved THEN FALSE
         ELSE IF PendingToolCall(toolCalls) = 0 THEN TRUE
         ELSE ~requires_approval(toolCalls[PendingToolCall(toolCalls)].tool_name)
    /\ calls' = calls + 1
    /\ last' = Did(p, "approve_refused", 0, 0, runStatus, 0)
    /\ UNCHANGED <<runStatus, steps, toolCalls, retry, pc, agent, cur,
                   everNeedsApproval, backoff, smVars>>

\* approve_run(approved=true) passes its checks and calls the tool function
ApproveBegin(p) ==
    /\ p # Executor
    /\ pc[p] = "idle"
    /\ calls < MaxCalls
    /\ runStatus = NEEDS_APPROVAL
    /\ PendingToolCall(toolCalls) # 0
    /\ requires_approval(toolCalls[PendingToolCall(toolCalls)].tool_name)
    /\ pc' = [pc EXCEPT ![p] = "approving"]
    /\ cur' = [cur EXCEPT ![p] = [step |-> 0, tc |-> PendingToolCall(toolCalls)]]
    /\ calls' = calls + 1
    /\ last' = Did(p, "approve_begin", 0, PendingToolCall(toolCalls), "", 0)
    /\ UNCHANGED <<runStatus, steps, toolCalls, retry, agent, everNeedsApproval, backoff, smVars>>

\* the approved tool returns or raises; on return the ToolCall is recorded, the
\* Run marked RUNNING, and a new Agent is put in EVALUATE and run
ApproveToolDone(p) ==
    /\ pc[p] = "approving"
    /\ \E ok \in BOOLEAN :
        LET t == cur[p].tc IN
        IF ok
        THEN /\ toolCalls' = [toolCalls EXCEPT ![t].outputs = "result",
                                               ![t].status = SUCCESS,
                                               ![t].executed_at = TRUE]
             /\ runStatus' = RUNNING
             /\ \E i \in (IF steps = <<>> THEN {0} ELSE LatestSteps(steps)) :
                   agent' = [agent EXCEPT ![p] =
                               [Agent(steps, i) EXCEPT !.state_machine.current_state = EVALUATE]]
             /\ pc' = [pc EXCEPT ![p] = "loop"]
             /\ last' = Did(p, "approved", toolCalls[t].step_id, t, "", 0)
        ELSE /\ runStatus' = FAILED
             /\ pc' = [pc EXCEPT ![p] = "idle"]
             /\ last' = Did(p, "approved_tool_raised", toolCalls[t].step_id, t, "", 0)
             /\ UNCHANGED <<agent, toolCalls>>
    /\ cur' = [cur EXCEPT ![p] = NoRows]
    /\ UNCHANGED <<steps, retry, calls, everNeedsApproval, backoff, smVars>>

\* approve_run(approved=false, reason): the Run is marked FAILED and a FAILED
\* Step is added
ApproveReject(p) ==
    /\ p # Executor
    /\ pc[p] = "idle"
    /\ calls < MaxCalls
    /\ runStatus = NEEDS_APPROVAL
    /\ \E reason \in Reasons :
        LET latest == LatestStep(steps)
            n == IF latest = 0 THEN 0 ELSE steps[latest].step_number
        IN
        /\ steps' = Append(steps, Step(FAILED, n + 1, None, "reject"))
        /\ last' = Did(p, "rejected", Len(steps) + 1, 0, reason, 0)
    /\ runStatus' = FAILED
    /\ calls' = calls + 1
    /\ UNCHANGED <<toolCalls, retry, pc, agent, cur, everNeedsApproval, backoff, smVars>>

(***************************************************************************)
(* The service: requests against one Run                                   *)
(***************************************************************************)
Next ==
    \/ \E p \in Procs : ExecuteRun(p)
    \/ \E p \in Procs : ExecuteRefused(p)
    \/ \E p \in Procs : ApproveRefused(p)
    \/ \E p \in Procs : ApproveBegin(p)
    \/ \E p \in Procs : ApproveToolDone(p)
    \/ \E p \in Procs : ApproveReject(p)
    \/ \E p \in Procs : MaxSteps(p)
    \/ \E p \in Procs : PlanStep(p)
    \/ \E p \in Procs : ExecuteBegin(p)
    \/ \E p \in Procs : ExecuteFinish(p)
    \/ \E p \in Procs : DispatchNeverReturns(p)
    \/ \E p \in Procs : EvaluateStep(p)
    \/ \E p \in Procs : FailedCommit(p)
    \/ \E p \in Procs : LoopExit(p)
    \/ \E p \in Procs : Propagate(p)

Spec == Init /\ [][Next]_vars

\* the service when every thread inside run_agent keeps running: the oracle
\* answers, a tool function that returns lets its dispatch end, and commits
\* go through.  Requests may stop arriving, and a tool function may never
\* return (DispatchNeverReturns), so neither is fair.
SpecLive ==
    /\ Spec
    /\ \A p \in Procs :
        /\ WF_vars(MaxSteps(p))
        /\ WF_vars(PlanStep(p))
        /\ WF_vars(ExecuteBegin(p))
        /\ WF_vars(ExecuteFinish(p))
        /\ WF_vars(EvaluateStep(p))
        /\ WF_vars(FailedCommit(p))
        /\ WF_vars(LoopExit(p))
        /\ WF_vars(Propagate(p))


(***************************************************************************)
(* The state machine on its own: any call in any state                     *)
(***************************************************************************)
\* StateMachine(initial_state) for any initial state
InitSM ==
    /\ \E s \in State :
        /\ sm = StateMachine(s)
        /\ smCall = [op |-> "init", to |-> s, before |-> StateMachine(s), raised |-> FALSE]
    /\ InitRun

\* sm.transition(to_state), for any target
SMTransition ==
    /\ \E to_state \in State :
        LET r == transition(sm, to_state) IN
        /\ Len(r.machine.transition_history) <= MaxHist
        /\ sm' = r.machine
        /\ smCall' = [op |-> "transition", to |-> to_state, before |-> sm,
                      raised |-> r.raised]
    /\ UNCHANGED runVars

\* sm.reset()
SMReset ==
    /\ sm' = reset(sm)
    /\ smCall' = [op |-> "reset", to |-> PLAN, before |-> sm, raised |-> FALSE]
    /\ UNCHANGED runVars

NextSM == SMTransition \/ SMReset

SpecSM == InitSM /\ [][NextSM]_vars

(***************************************************************************)
(* The FAILED helper on its own: an Agent in any machine state, on which   *)
(* _transition_to_failed is invoked any number of times                    *)
(***************************************************************************)
\* an Agent in PLAN whose Run has n Steps so far
InitTF ==
    /\ sm = StateMachine(PLAN)
    /\ smCall = [op |-> "init", to |-> PLAN, before |-> StateMachine(PLAN), raised |-> FALSE]
    /\ \E n \in 0..MaxCalls :
        /\ steps = [i \in 1..n |-> Step(PLAN, i, "plan", "plan")]
        /\ agent = [p \in Procs |->
                      IF p = Executor
                      THEN [FreshAgent EXCEPT !.current_step_number = n]
                      ELSE FreshAgent]
    /\ runStatus = RUNNING
    /\ toolCalls = <<>>
    /\ retry = <<>>
    /\ pc = [p \in Procs |-> IF p = Executor THEN "loop" ELSE "idle"]
    /\ cur = [p \in Procs |-> NoRows]
    /\ last = Did(0, "none", 0, 0, "", 0)
    /\ calls = 0
    /\ everNeedsApproval = FALSE
    /\ backoff = NoBackoff

\* a handler moves the Agent's machine to a state the table allows
TFTransition(p) ==
    /\ pc[p] = "loop"
    /\ \E to_state \in State :
        LET r == transition(agent[p].state_machine, to_state) IN
        /\ ~r.raised
        /\ Len(r.machine.transition_history) <= MaxHist
        /\ agent' = [agent EXCEPT ![p].state_machine = r.machine]
        /\ last' = Did(p, "moved", 0, 0, to_state, calls)
    /\ UNCHANGED <<runStatus, steps, toolCalls, retry, pc, cur, calls,
                   everNeedsApproval, backoff, smVars>>

\* one whole call of _transition_to_failed(reason), both commits included
TFHelper(p) ==
    /\ pc[p] = "loop"
    /\ calls < MaxCalls
    /\ \E reason \in Reasons :
        LET r == transition_to_failed(agent[p], steps, reason) IN
        /\ agent' = [agent EXCEPT ![p] = r.agent]
        /\ steps' = r.steps
        /\ runStatus' = IF r.noop THEN runStatus ELSE FAILED
        /\ last' = Did(p, "helper", Len(r.steps), 0, reason, calls + 1)
    /\ calls' = calls + 1
    /\ UNCHANGED <<toolCalls, retry, pc, cur, everNeedsApproval, backoff, smVars>>

NextTF ==
    \/ \E p \in Procs : TFTransition(p)
    \/ \E p \in Procs : TFHelper(p)

SpecTF == InitTF /\ [][NextTF]_vars

(***************************************************************************)
(* validate_tool_inputs on its own: any registered tool (and one that is   *)
(* not), any raw mapping of up to MaxParams parameters                     *)
(***************************************************************************)
\* the values a planner may put under a key
RawValues == {Str("x"), Str("high"), Str("error_rate"), Num("5"), Arr("a")}

\* the raw mappings tried for a tool: its schema's parameters and one the
\* schema does not know
RawInputs(tool_name) ==
    LET keys == (IF tool_name \in ToolNames
                 THEN DOMAIN TOOLS[tool_name].properties ELSE {}) \cup {"extra"}
    IN UNION {[D -> RawValues] : D \in {E \in SUBSET keys : Cardinality(E) <= MaxParams}}

InitVal ==
    /\ sm = StateMachine(PLAN)
    /\ smCall = [op |-> "init", to |-> PLAN, before |-> StateMachine(PLAN), raised |-> FALSE]
    /\ runStatus = RUNNING
    /\ steps = <<>>
    /\ toolCalls = <<>>
    /\ retry = <<>>
    /\ pc = [p \in Procs |-> "idle"]
    /\ agent = [p \in Procs |-> FreshAgent]
    /\ cur = [p \in Procs |-> NoRows]
    /\ calls = 0
    /\ everNeedsApproval = FALSE
    /\ backoff = NoBackoff
    /\ \E tool_name \in ToolNames \cup {"restart_server"} :
        \E inputs \in RawInputs(tool_name) :
            last = Did(0, "inputs", 0, 0, [tool_name |-> tool_name, inputs |-> inputs], 0)

\* validate_tool_inputs(tool_name, inputs) is called on the arguments drawn;
\* the event keeps the arguments and the outcome
Validate ==
    /\ last.op = "inputs"
    /\ last' = Did(0, "validate_tool_inputs", 0, 0, last.arg,
                   validate_tool_inputs(last.arg.tool_name, last.arg.inputs))
    /\ UNCHANGED <<runStatus, steps, toolCalls, retry, pc, agent, cur, calls,
                   everNeedsApproval, backoff, smVars>>

NextVal == Validate

SpecVal == InitVal /\ [][NextVal]_vars

(***************************************************************************)
(* Concurrent approvals: a Run whose gated plan has just failed its loop,  *)
(* with one more request thread than the service above, so that two        *)
(* approve requests can be in progress while the failing loop finishes     *)
(***************************************************************************)
Threads == 1..(NumProcs + 1)

\* the machine of a loop that went through n rounds, planned once more and
\* was failed by the helper in EXECUTE_TOOL
HistoryAtGate(n) ==
    [i \in 1..(3 * n + 3) |->
        IF i = 3 * n + 3 THEN FAILED
        ELSE IF i % 3 = 1 THEN PLAN
        ELSE IF i % 3 = 2 THEN EXECUTE_TOOL
        ELSE EVALUATE]

\* execute_run has planned, executed and evaluated search_logs
\* RoundsBeforeGate times, then planned create_ticket; the gate's transition
\* has raised and the helper has made its first commit
InitApprovals ==
    LET n == RoundsBeforeGate
        evaluated == [i \in 1..n |->
                        [Step(PLAN, i, "plan", "plan") EXCEPT !.state = EVALUATE,
                                                              !.notes = 1]]
        gated == [Step(PLAN, n + 1, "plan", "plan") EXCEPT !.state = NEEDS_APPROVAL]
        helper == Step(FAILED, n + 2, "Unexpected error: Invalid transition", "helper")
        succeeded == [i \in 1..n |->
                        [ToolCall(i, "search_logs",
                                  validate_tool_inputs("search_logs", <<>>).validated)
                            EXCEPT !.status = SUCCESS, !.outputs = "result",
                                   !.executed_at = TRUE]]
        ticket == ToolCall(n + 1, "create_ticket",
                           validate_tool_inputs("create_ticket",
                               [k \in {"title", "description"} |-> Str("t")]).validated)
    IN
    /\ sm = StateMachine(PLAN)
    /\ smCall = [op |-> "init", to |-> PLAN, before |-> StateMachine(PLAN), raised |-> FALSE]
    /\ runStatus = NEEDS_APPROVAL
    /\ steps = evaluated \o <<gated, helper>>
    /\ toolCalls = succeeded \o <<ticket>>
    /\ retry = <<>>
    /\ pc = [p \in Threads |-> IF p = Executor THEN "tf_raise" ELSE "idle"]
    /\ agent = [p \in Threads |->
                  IF p = Executor
                  THEN [state_machine |-> [current_state |-> FAILED,
                                           transition_history |-> HistoryAtGate(n)],
                        current_step_number |-> n + 1]
                  ELSE FreshAgent]
    /\ cur = [p \in Threads |-> NoRows]
    /\ last = Did(Executor, "fault", n + 2, 0, "Unexpected error: Invalid transition", n + 1)
    /\ calls = 1
    /\ everNeedsApproval = TRUE
    /\ backoff = [tc |-> n + 1, delay |-> 0, total |-> 0]

\* the requests and loop iterations of the service, served by Threads. A loop
\* that resumes here evaluates at counter RoundsBeforeGate + 2 and plans at
\* most once more before the step ceiling ends it, so no iteration handles
\* EXECUTE_TOOL and the dispatch steps are not among the disjuncts
NextApprovals ==
    \/ \E p \in Threads : ExecuteRun(p)
    \/ \E p \in Threads : ExecuteRefused(p)
    \/ \E p \in Threads : ApproveRefused(p)
    \/ \E p \in Threads : ApproveBegin(p)
    \/ \E p \in Threads : ApproveToolDone(p)
    \/ \E p \in Threads : ApproveReject(p)
    \/ \E p \in Threads : MaxSteps(p)
    \/ \E p \in Threads : PlanStep(p)
    \/ \E p \in Threads : EvaluateStep(p)
    \/ \E p \in Threads : FailedCommit(p)
    \/ \E p \in Threads : LoopExit(p)
    \/ \E p \in Threads : Propagate(p)

SpecApprovals == InitApprovals /\ [][NextApprovals]_vars

(***************************************************************************)
(* The retry counters on their own: one Run per thread, all Agents on the  *)
(* same Redis server, each handling failures and successes of its own      *)
(* ToolCalls                                                               *)
(***************************************************************************)
\* the Run a thread executes: Runs 1, 11, 21, ...
RunIdOf(p) == 10 * (p - 1) + 1

\* the ToolCall rows of the Run of thread p; row ids are unique over all Runs
ToolCallIdsOf(p) == {RunIdOf(IF p = NumProcs THEN 1 ELSE p + 1), 100 + p}

\* a key that runs the two ids together
retry_key_unseparated(run_id, tool_call_id) ==
    "retry:" \o ToString(run_id) \o ToString(tool_call_id)

\* f"retry:{self.run_id}:{tool_call.id}"
retry_key(run_id, tool_call_id) ==
    "retry:" \o ToString(run_id) \o ":" \o ToString(tool_call_id)

InitRetry ==
    /\ sm = StateMachine(PLAN)
    /\ smCall = [op |-> "init", to |-> PLAN, before |-> StateMachine(PLAN), raised |-> FALSE]
    /\ InitRun

\* _handle_execute_state reads the counter of the ToolCall it is about to
\* dispatch; cur keeps the ToolCall and the attempts read
RetryGet(p) ==
    /\ pc[p] = "idle"
    /\ \E t \in ToolCallIdsOf(p) :
        LET attempts == getAttempts(retry, retry_key(RunIdOf(p), t)) IN
        /\ cur' = [cur EXCEPT ![p] = [step |-> attempts, tc |-> t]]
        /\ last' = Did(p, "get", 0, t, retry_key(RunIdOf(p), t), attempts)
    /\ pc' = [pc EXCEPT ![p] = "dispatch"]
    /\ UNCHANGED <<runStatus, steps, toolCalls, retry, agent, calls,
                   everNeedsApproval, backoff, smVars>>

\* the dispatch succeeded: the counter is deleted
RetryDelete(p) ==
    /\ pc[p] = "dispatch"
    /\ retry' = clear(retry, retry_key(RunIdOf(p), cur[p].tc))
    /\ last' = Did(p, "delete", 0, cur[p].tc, retry_key(RunIdOf(p), cur[p].tc), 0)
    /\ pc' = [pc EXCEPT ![p] = "idle"]
    /\ cur' = [cur EXCEPT ![p] = NoRows]
    /\ UNCHANGED <<runStatus, steps, toolCalls, agent, calls,
                   everNeedsApproval, backoff, smVars>>

\* the dispatch failed with fewer than 3 attempts read: attempts + 1 is stored
RetrySetex(p) ==
    /\ pc[p] = "dispatch"
    /\ cur[p].step < max_retries
    /\ retry' = recordAttempt(retry, retry_key(RunIdOf(p), cur[p].tc), cur[p].step + 1)
    /\ last' = Did(p, "setex", 0, cur[p].tc, retry_key(RunIdOf(p), cur[p].tc),
                   cur[p].step + 1)
    /\ pc' = [pc EXCEPT ![p] = "idle"]
    /\ cur' = [cur EXCEPT ![p] = NoRows]
    /\ UNCHANGED <<runStatus, steps, toolCalls, agent, calls,
                   everNeedsApproval, backoff, smVars>>

\* the dispatch failed with 3 attempts read: the counter is left as it is
RetryExhausted(p) ==
    /\ pc[p] = "dispatch"
    /\ cur[p].step >= max_retries
    /\ last' = Did(p, "exhausted", 0, cur[p].tc, retry_key(RunIdOf(p), cur[p].tc),
                   cur[p].step)
    /\ pc' = [pc EXCEPT ![p] = "idle"]
    /\ cur' = [cur EXCEPT ![p] = NoRows]
    /\ UNCHANGED <<runStatus, steps, toolCalls, retry, agent, calls,
                   everNeedsApproval, backoff, smVars>>

NextRetry ==
    \/ \E p \in Procs : RetryGet(p)
    \/ \E p \in Procs : RetryDelete(p)
    \/ \E p \in Procs : RetrySetex(p)
    \/ \E p \in Procs : RetryExhausted(p)

SpecRetry == InitRetry /\ [][NextRetry]_vars

(***************************************************************************)
(* The NEEDS_APPROVAL handler on its own: _execute_current_state is called *)
(* on an Agent whose machine is in NEEDS_APPROVAL (run_agent itself leaves *)
(* its loop before it dispatches on that state)                            *)
(***************************************************************************)
\* the ToolCall rows of a Run in which exactly the Steps of `owners` were
\* planned with a tool
ToolCallsOf(owners) ==
    LET RECURSIVE build(_)
        build(n) ==
            IF n = 0 THEN <<>>
            ELSE IF n \in owners
                 THEN Append(build(n - 1),
                             ToolCall(n, "create_ticket",
                                      validate_tool_inputs("create_ticket",
                                          [k \in {"title", "description"} |-> Str("t")]).validated))
                 ELSE build(n - 1)
    IN build(MaxCalls)

\* _handle_needs_approval_state with the current Step sid its query returned
\* (0: none): the Agent, the Step rows and Run.status after the call, whether
\* the call raised, and the branch taken
handle_needs_approval_state(a, stps, tcs, status, sid) ==
    IF sid = 0
    THEN LET r == transition_to_failed(a, stps, "No current step for approval") IN
         [agent |-> r.agent, steps |-> r.steps,
          status |-> IF r.noop \/ r.raised THEN status ELSE FAILED,
          raised |-> r.raised, branch |-> "no_step"]
    ELSE IF \A t \in DOMAIN tcs : tcs[t].step_id # sid
    THEN LET m == transition(a.state_machine, PLAN) IN
         [agent |-> [a EXCEPT !.state_machine = m.machine], steps |-> stps,
          status |-> status, raised |-> m.raised, branch |-> "no_tool_call"]
    ELSE [agent |-> a, steps |-> stps, status |-> NEEDS_APPROVAL,
          raised |-> FALSE, branch |-> "pause"]

\* a Run of n Steps, some of them planned with a tool, and an Agent in
\* NEEDS_APPROVAL whose step counter is c
InitNA ==
    /\ sm = StateMachine(PLAN)
    /\ smCall = [op |-> "init", to |-> PLAN, before |-> StateMachine(PLAN), raised |-> FALSE]
    /\ \E n \in 0..MaxCalls, c \in 0..MaxCalls, owners \in SUBSET (1..MaxCalls) :
        /\ owners \subseteq 1..n
        /\ steps = [i \in 1..n |->
                       [Step(PLAN, i, "plan", "plan") EXCEPT
                           !.state = IF i = n THEN NEEDS_APPROVAL ELSE EVALUATE]]
        /\ toolCalls = ToolCallsOf(owners)
        /\ agent = [p \in Procs |->
                      IF p = Executor
                      THEN [state_machine |-> [StateMachine(PLAN) EXCEPT
                                                  !.current_state = NEEDS_APPROVAL],
                            current_step_number |-> c]
                      ELSE FreshAgent]
    /\ runStatus \in {RUNNING, NEEDS_APPROVAL}
    /\ retry = <<>>
    /\ pc = [p \in Procs |-> IF p = Executor THEN "handler" ELSE "idle"]
    /\ cur = [p \in Procs |-> NoRows]
    /\ last = Did(0, "none", 0, 0, "", 0)
    /\ calls = 0
    /\ everNeedsApproval = (runStatus = NEEDS_APPROVAL)
    /\ backoff = NoBackoff

\* _execute_current_state dispatches to _handle_needs_approval_state
HandleNeedsApproval(p) ==
    /\ pc[p] = "handler"
    /\ StateOf(p) = NEEDS_APPROVAL
    /\ LET found == StepsNumbered(steps, StepNo(p)) IN
       \E sid \in (IF found = {} THEN {0} ELSE found) :
        LET r == handle_needs_approval_state(agent[p], steps, toolCalls, runStatus, sid) IN
        /\ agent' = [agent EXCEPT ![p] = r.agent]
        /\ steps' = r.steps
        /\ runStatus' = r.status
        /\ everNeedsApproval' = (everNeedsApproval \/ r.status = NEEDS_APPROVAL)
        /\ pc' = [pc EXCEPT ![p] = IF r.raised THEN "raised" ELSE "returned"]
        /\ last' = Did(p, r.branch, sid, 0, IF r.raised THEN "raised" ELSE "returned", StepNo(p))
    /\ UNCHANGED <<toolCalls, retry, cur, calls, backoff, smVars>>

NextNA == \E p \in Procs : HandleNeedsApproval(p)

SpecNA == InitNA /\ [][NextNA]_vars

(***************************************************************************)
(* Properties                                                              *)
(***************************************************************************)

\* C1: transition(T) in state S succeeds, making T the current state and
\* appending it to the history, exactly when T is in the table entry of S;
\* otherwise it raises and leaves current_state and the history as they were.
C1_TransitionIffLegal ==
    smCall.op = "transition" =>
        LET S == smCall.before.current_state
            T == smCall.to
        IN /\ (~smCall.raised <=> T \in TRANSITIONS[S])
           /\ (~smCall.raised =>
                 /\ sm.current_state = T
                 /\ sm.transition_history = Append(smCall.before.transition_history, T))
           /\ (smCall.raised => sm = smCall.before)

\* a machine that has moved at least once refuses an illegal target
C1_Witness ==
    /\ smCall.op = "transition"
    /\ smCall.raised
    /\ smCall.before.current_state = EXECUTE_TOOL
    /\ smCall.to = PLAN
    /\ Len(sm.transition_history) >= 2

\* C5: from DONE and from FAILED transition(T) raises for every target T, the
\* current state included, and the machine stays where it is.
C5_TerminalAbsorbing ==
    (smCall.op = "transition" /\ smCall.before.current_state \in {DONE, FAILED}) =>
        /\ smCall.raised
        /\ sm.current_state = smCall.before.current_state

\* transition(DONE) was called on a machine that reached DONE
C5_Witness ==
    /\ smCall.op = "transition"
    /\ smCall.before.current_state = DONE
    /\ smCall.to = DONE
    /\ Len(smCall.before.transition_history) >= 2
    /\ sm.current_state = DONE

\* C2: in every reachable state a ToolCall of a tool registered with
\* requires_approval = true has status SUCCESS only if Run.status has been
\* NEEDS_APPROVAL at some earlier point.
C2_GatedSuccessAfterPause ==
    \A t \in DOMAIN toolCalls :
        (/\ TOOLS[toolCalls[t].tool_name].requires_approval
         /\ toolCalls[t].status = SUCCESS) => everNeedsApproval

\* an approval-gated ToolCall has been executed
C2_Witness ==
    \E t \in DOMAIN toolCalls :
        /\ toolCalls[t].tool_name = "create_ticket"
        /\ toolCalls[t].status = SUCCESS
        /\ toolCalls[t].executed_at

\* C3: when the ToolCall at hand is of an approval-gated tool, the EXECUTE_TOOL
\* iteration ends with the loop going on without a fault, the machine in
\* NEEDS_APPROVAL, Run.status NEEDS_APPROVAL and the ToolCall PENDING and not
\* executed.
C3_GatePauses ==
    [][\A p \in Procs :
        (/\ pc[p] = "dispatch"
         /\ TOOLS[toolCalls[cur[p].tc].tool_name].requires_approval
         /\ pc'[p] # "dispatch")
        => /\ pc'[p] = "loop"
           /\ agent'[p].state_machine.current_state = NEEDS_APPROVAL
           /\ runStatus' = NEEDS_APPROVAL
           /\ toolCalls'[cur[p].tc].status = PENDING
           /\ ~toolCalls'[cur[p].tc].executed_at]_vars

\* C4 as stated: no dispatch of a ToolCall follows 3 consecutive failed ones,
\* and a ToolCall with 3 consecutive failed dispatches is FAILED.
C4_ThreeFailuresEnd ==
    /\ (last.op \in {"dispatch_success", "dispatch_retry", "dispatch_exhausted"}
            => last.n < 3)
    /\ \A t \in DOMAIN toolCalls :
            toolCalls[t].streak >= 3 => toolCalls[t].status = FAILED

\* C4 (amended): no dispatch of a ToolCall follows 4 consecutive failed ones;
\* the 4th failure marks the ToolCall FAILED, puts the machine of the loop that
\* dispatched it in FAILED, and the helper's second commit marks the Run FAILED.
C4_FourFailuresEnd ==
    /\ (last.op \in {"dispatch_success", "dispatch_retry", "dispatch_exhausted"}
            => last.n <= 3)
    /\ \A t \in DOMAIN toolCalls :
            toolCalls[t].streak >= 4 => toolCalls[t].status = FAILED
    /\ (last.op = "dispatch_exhausted" =>
            /\ last.n = 3
            /\ toolCalls[last.tc].status = FAILED
            /\ StateOf(last.p) = FAILED
            /\ steps[Len(steps)].state = FAILED
            /\ (pc[last.p] = "tf_return" \/ runStatus = FAILED))

\* the 4th consecutive failure of a ToolCall has been handled and committed
C4_Witness ==
    /\ last.op = "dispatch_exhausted"
    /\ toolCalls[last.tc].streak = 4
    /\ pc[last.p] = "loop"
    /\ runStatus = FAILED

\* C6: the Steps created on entering PLAN carry, in creation order, the
\* step_numbers 1, 2, 3, ...
C6_PlanStepsGapless ==
    \A i \in DOMAIN steps :
        steps[i].origin = "plan" =>
            steps[i].step_number =
                Cardinality({j \in 1..i : steps[j].origin = "plan"})

\* C7: the helper appends at most one Step however often it is invoked; an
\* invocation on a machine in DONE or FAILED changes neither the Steps, nor
\* the machine, nor Run.status; an invocation on any other machine appends one
\* FAILED Step and leaves machine and Run in FAILED.
C7_HelperIdempotent ==
    /\ [](Cardinality({i \in DOMAIN steps : steps[i].origin = "helper"}) <= 1)
    /\ [][\A p \in Procs :
            (last'.op = "helper" /\ last'.p = p /\ calls' = calls + 1) =>
                IF is_terminal(StateOf(p))
                THEN /\ steps' = steps
                     /\ agent'[p] = agent[p]
                     /\ runStatus' = runStatus
                ELSE /\ Len(steps') = Len(steps) + 1
                     /\ steps'[Len(steps')].state = FAILED
                     /\ agent'[p].state_machine.current_state = FAILED
                     /\ runStatus' = FAILED]_vars

\* the helper has been invoked a second time on a Run it had failed
C7_Witness ==
    /\ last.op = "helper"
    /\ last.n >= 2
    /\ StateOf(last.p) = FAILED
    /\ Cardinality({i \in DOMAIN steps : steps[i].origin = "helper"}) = 1

\* C8: once approve_run(approved=true) has executed the pending ToolCall, the
\* ToolCall is SUCCESS with its outputs and the loop restarts with the machine
\* in EVALUATE and the step counter of the gated Step.
C8_ResumeAtGatedStep ==
    last.op = "approved" =>
        /\ toolCalls[last.tc].status = SUCCESS
        /\ toolCalls[last.tc].outputs = "result"
        /\ pc[last.p] = "loop"
        /\ StateOf(last.p) = EVALUATE
        /\ StepNo(last.p) = steps[last.step].step_number

\* C9: once approve_run(approved=false, reason) has answered, Run.status is
\* FAILED and the Step it appended is in FAILED with the reason as reasoning.
C9_RejectionRecordsReason ==
    last.op = "rejected" =>
        /\ runStatus = FAILED
        /\ last.step = Len(steps)
        /\ steps[last.step].state = FAILED
        /\ steps[last.step].reasoning = last.arg

\* C10: a dispatch that succeeds after 2 consecutive failed dispatches of the
\* same ToolCall leaves that row SUCCESS, its retry counter cleared, the
\* machine in EVALUATE and the loop running; it adds no row and does not touch
\* Run.status.
C10_ThirdDispatchSucceeds ==
    [][\A p \in Procs :
        (/\ pc[p] = "dispatch"
         /\ last'.op = "dispatch_success"
         /\ last'.p = p
         /\ last'.n = 2)
        => /\ last'.tc = cur[p].tc
           /\ ~TOOLS[toolCalls[cur[p].tc].tool_name].requires_approval
           /\ getAttempts(retry, cur[p].tc) = 2
           /\ toolCalls'[cur[p].tc].status = SUCCESS
           /\ toolCalls'[cur[p].tc].outputs = "result"
           /\ getAttempts(retry', cur[p].tc) = 0
           /\ agent'[p].state_machine.current_state = EVALUATE
           /\ pc'[p] = "loop"
           /\ Len(toolCalls') = Len(toolCalls)
           /\ Len(steps') = Len(steps)
           /\ runStatus' = runStatus]_vars

\* a ToolCall has succeeded on its 3rd dispatch
C10_Witness ==
    /\ last.op = "dispatch_success"
    /\ last.n = 2
    /\ toolCalls[last.tc].status = SUCCESS
    /\ toolCalls[last.tc].streak = 0

\* C11: the sleep before a dispatch is 0 when no failed attempt is recorded for
\* the ToolCall and 1, 2, 4 time units when 1, 2, 3 are; a ToolCall that
\* succeeds after two failed dispatches has been slept for 1 + 2 units or more.
C11_BackoffDoubles ==
    /\ []((last.op = "dispatch_success" /\ last.n = 2) =>
            (backoff.tc = last.tc /\ backoff.total >= 1 + 2))
    /\ [][\A p \in Procs :
            (pc[p] = "dispatch" /\ pc'[p] # "dispatch") =>
                LET k == getAttempts(retry, cur[p].tc) IN
                /\ backoff'.tc = cur[p].tc
                /\ k \in 0..3
                /\ (k = 0 => backoff'.delay = 0)
                /\ (k = 1 => backoff'.delay = 1)
                /\ (k = 2 => backoff'.delay = 2)
                /\ (k = 3 => backoff'.delay = 4)
                /\ backoff'.total = toolCalls[cur[p].tc].slept + backoff'.delay]_vars

\* the 4th dispatch of a ToolCall was made after sleeping 1, 2 and 4 units
C11_Witness ==
    /\ last.op \in {"dispatch_success", "dispatch_retry", "dispatch_exhausted"}
    /\ last.n = 3
    /\ backoff.tc = last.tc
    /\ backoff.delay = 4
    /\ backoff.total = 1 + 2 + 4

\* C12: in a Run started once and fresh, in which no tool planned so far is
\* approval-gated or has failed for good and nothing has failed the Run, the
\* Steps are numbered 1..k in creation order; when the k-th planning answer is
\* done the machine is in DONE with k <= 10 Steps, the k-th in state DONE and
\* the others answered by a successful tool call, and when start() returns
\* from such a run Run.status is DONE.
C12_HappyRunEndsDone ==
    (/\ calls = 1
     /\ \A i \in DOMAIN steps : steps[i].origin = "plan"
     /\ \A t \in DOMAIN toolCalls :
            /\ ~TOOLS[toolCalls[t].tool_name].requires_approval
            /\ toolCalls[t].status # FAILED)
    => /\ \A i \in DOMAIN steps : steps[i].step_number = i
       /\ (last.op = "plan_done" =>
             /\ StateOf(Executor) = DONE
             /\ last.n = Len(steps)
             /\ Len(steps) \in 1..10
             /\ steps[Len(steps)].state = DONE
             /\ Len(toolCalls) = Len(steps) - 1
             /\ \A t \in DOMAIN toolCalls : toolCalls[t].status = SUCCESS)
       /\ ((/\ last.op = "returned"
            /\ last.arg = DONE
            /\ steps[Len(steps)].state = DONE) =>
             /\ runStatus = DONE
             /\ pc[Executor] = "idle"
             /\ Len(steps) = last.n
             /\ Len(toolCalls) = Len(steps) - 1
             /\ \A i \in 1..(Len(steps) - 1) : steps[i].state = EVALUATE)

\* start() has returned from a run of 9 successful tool calls, each evaluated
\* with continue, whose 10th planning answer was done
C12_Witness ==
    /\ calls = 1
    /\ last.op = "returned"
    /\ last.arg = DONE
    /\ runStatus = DONE
    /\ Len(steps) = 10
    /\ \A i \in 1..9 : steps[i].state = EVALUATE /\ steps[i].notes = 1
    /\ steps[10].state = DONE
    /\ Len(toolCalls) = 9
    /\ \A t \in DOMAIN toolCalls : toolCalls[t].status = SUCCESS

\* C13: an evaluation decision outside continue / done / needs_approval /
\* failed never moves the machine on: the handler ends with the machine in
\* FAILED and a FAILED Step whose reasoning names the decision, and the
\* helper's second commit marks the Run FAILED.
C13_UnknownDecisionFails ==
    \A d \in {"maybe", "retry"} :
        /\ last.arg = d => last.op \notin {"eval_continue", "eval_done",
                                            "eval_needs_approval", "eval_" \o d}
        /\ (last.op = "failed" /\ last.arg = "Unknown decision: " \o d) =>
              /\ StateOf(last.p) = FAILED
              /\ last.step = Len(steps)
              /\ steps[last.step].state = FAILED
              /\ steps[last.step].origin = "helper"
              /\ steps[last.step].reasoning = "Unknown decision: " \o d
              /\ steps[last.step].step_number = StepNo(last.p) + 1
              /\ (pc[last.p] = "tf_return" \/ runStatus = FAILED)

\* the evaluation answered "maybe" and the Run has been marked FAILED
C13_Witness ==
    /\ last.op = "failed"
    /\ last.arg = "Unknown decision: maybe"
    /\ pc[last.p] = "loop"
    /\ StateOf(last.p) = FAILED
    /\ runStatus = FAILED

\* C14: when run_agent has returned, Run.status is the projection of the
\* machine state the loop stopped in: DONE for DONE, FAILED for FAILED,
\* NEEDS_APPROVAL for NEEDS_APPROVAL.
C14_StatusProjectsMachine ==
    last.op = "returned" =>
        /\ last.arg \in {DONE, FAILED, NEEDS_APPROVAL}
        /\ runStatus = last.arg

\* C15: a PLAN or EVALUATE iteration whose oracle call fails (transport error,
\* empty or unparseable answer, missing or unknown action / decision) ends
\* with the machine in FAILED and the FAILED Step written, leaving the retry
\* counters and the ToolCalls alone; a loop whose machine is FAILED runs no
\* handler any more, it only returns or raises; and a Run marked FAILED accepts
\* no further request.
C15_OracleFailureIsFinal ==
    /\ [][\A p \in Procs :
            (/\ pc[p] = "loop"
             /\ StateOf(p) \in {PLAN, EVALUATE}
             /\ last'.p = p
             /\ last'.op = "failed"
             /\ last'.arg \in {"api_error", "empty", "unparseable",
                               "Invalid plan format: missing 'action'",
                               "Unknown action",
                               "Invalid evaluation: missing 'decision'",
                               "Unknown decision: maybe", "Unknown decision: retry"})
            => /\ agent'[p].state_machine.current_state = FAILED
               /\ pc'[p] = "tf_return"
               /\ steps'[Len(steps')].state = FAILED
               /\ steps'[Len(steps')].reasoning = last'.arg
               /\ Len(steps') \in {Len(steps) + 1, Len(steps) + 2}
               /\ retry' = retry
               /\ toolCalls' = toolCalls]_vars
    /\ [][\A p \in Procs :
            (InLoop(p) /\ StateOf(p) = FAILED /\ last'.p = p /\ last' # last)
            => last'.op \in {"returned", "raised"}]_vars
    /\ [][(runStatus = FAILED /\ calls' = calls + 1)
            => /\ last'.op \in {"execute_refused", "approve_refused"}
               /\ runStatus' = FAILED]_vars

\* the planning oracle gave an unparseable answer on the second PLAN iteration
\* and the loop has marked the Run FAILED
C15_Witness ==
    /\ last.op = "failed"
    /\ last.arg = "unparseable"
    /\ last.n = 2
    /\ StateOf(last.p) = FAILED
    /\ pc[last.p] = "loop"
    /\ runStatus = FAILED
    /\ Len(toolCalls) = 1

\* C16: every ToolCall row names a registered tool and stores inputs that pass
\* validation unchanged; a PLAN iteration whose planned tool is not registered
\* or whose inputs fail validation creates no ToolCall, leaves the machine in
\* FAILED without entering EXECUTE_TOOL, and the Run is marked FAILED.
C16_InvalidPlanCreatesNoToolCall ==
    /\ [](\A t \in DOMAIN toolCalls :
            /\ toolCalls[t].tool_name \in ToolNames
            /\ ~validate_tool_inputs(toolCalls[t].tool_name, toolCalls[t].inputs).raised
            /\ validate_tool_inputs(toolCalls[t].tool_name, toolCalls[t].inputs).validated
                  = toolCalls[t].inputs)
    /\ []((last.op = "failed" /\ last.arg = "Invalid tool inputs") =>
            /\ StateOf(last.p) = FAILED
            /\ steps[Len(steps)].state = FAILED
            /\ (pc[last.p] = "tf_return" \/ runStatus = FAILED))
    /\ [][\A p \in Procs :
            (/\ pc[p] = "loop"
             /\ StateOf(p) = PLAN
             /\ last'.p = p
             /\ last'.op = "failed"
             /\ last'.arg = "Invalid tool inputs")
            => /\ toolCalls' = toolCalls
               /\ retry' = retry
               /\ agent'[p].state_machine.transition_history
                     = Append(agent[p].state_machine.transition_history, FAILED)]_vars

\* a first plan that did not pass validation has failed the Run
C16_Witness ==
    /\ last.op = "failed"
    /\ last.arg = "Invalid tool inputs"
    /\ runStatus = FAILED
    /\ pc[last.p] = "loop"
    /\ toolCalls = <<>>
    /\ Len(steps) = 2

\* C18: a loop whose dispatch has passed its deadline is not blocked: whatever
\* the tool function does, the thread can go on (the handler gets the timeout
\* and the loop continues).
C18_TimeoutReturnsControl ==
    \A p \in Procs :
        pc[p] = "joining" => ENABLED (Next /\ pc'[p] # "joining")

C19_ValidateInputs ==
    (last.op = "validate_tool_inputs" /\ last.arg.tool_name \in ToolNames) =>
        LET raw == last.arg.inputs
            res == last.n
            props == TOOLS[last.arg.tool_name].properties
            present == {k \in DOMAIN props :
                            k \in DOMAIN raw \/ props[k].default # NoDefault}
            value(k) == IF k \in DOMAIN raw THEN raw[k] ELSE props[k].default
            bad(k) == \/ props[k].type = "string" /\ value(k).type # "string"
                      \/ props[k].type = "array" /\ value(k).type # "array"
                      \/ props[k].enum # {} /\ value(k).val \notin props[k].enum
            fails == \/ \E k \in TOOLS[last.arg.tool_name].required : k \notin DOMAIN raw
                     \/ \E k \in present : bad(k)
        IN /\ res.raised <=> fails
           /\ ~res.raised =>
                /\ DOMAIN res.validated = present
                /\ \A k \in present : res.validated[k] = value(k)
                /\ \A k \in DOMAIN raw \ DOMAIN props : k \notin DOMAIN res.validated

\* search_logs validated with a query, its own time_range and a key the schema
\* does not know
C19_Witness ==
    /\ last.op = "validate_tool_inputs"
    /\ last.arg.tool_name = "search_logs"
    /\ DOMAIN last.arg.inputs = {"query", "time_range", "extra"}
    /\ last.arg.inputs["time_range"] = Str("x")
    /\ ~last.n.raised
    /\ DOMAIN last.n.validated = {"query", "time_range"}
    /\ last.n.validated["time_range"] = Str("x")

\* C20: after reset(), whatever the state it was called in (DONE and FAILED
\* included) and whatever the history, the machine is in PLAN and its history
\* is exactly [PLAN].
C20_ResetToPlan ==
    smCall.op = "reset" =>
        /\ sm.current_state = PLAN
        /\ sm.transition_history = <<PLAN>>

\* reset() called on a machine that had reached DONE or FAILED through at
\* least one transition
C20_Witness ==
    /\ smCall.op = "reset"
    /\ is_terminal(smCall.before.current_state)
    /\ Len(smCall.before.transition_history) >= 2
    /\ sm = StateMachine(PLAN)

\* C21: when a loop iteration has committed, the machine of the loop is in the
\* state stored in the Run's Step with the highest step_number, and the step
\* counter is that Step's number: an Agent built from the stored Steps at that
\* point would be where the loop is.
C21_MachineMatchesLatestStep ==
    \A p \in Procs :
        (/\ pc[p] = "loop"
         /\ last.p = p
         /\ last.op \in {"plan_done", "plan_call_tool", "dispatch_success",
                         "dispatch_retry", "eval_continue", "eval_done",
                         "eval_needs_approval"})
        => \A i \in LatestSteps(steps) :
              Agent(steps, i) = [agent[p] EXCEPT
                                    !.state_machine.transition_history = <<PLAN>>]

\* C22: when run_agent has returned with the machine paused in NEEDS_APPROVAL
\* and the Run is started again, the new loop is paused from the outset (its
\* machine is in NEEDS_APPROVAL, so no handler runs and nothing is dispatched),
\* no Step or ToolCall is written, and Run.status is NEEDS_APPROVAL, so that an
\* approval is still accepted.
C22_StartOnPausedRunIsNoop ==
    [][(/\ last.op = "returned"
        /\ last.arg = NEEDS_APPROVAL
        /\ last'.op = "execute_run")
       => /\ agent'[last'.p].state_machine.current_state = NEEDS_APPROVAL
          /\ steps' = steps
          /\ toolCalls' = toolCalls
          /\ runStatus' = NEEDS_APPROVAL]_vars

\* C23: at any time at most one ToolCall of the Run is PENDING or RUNNING,
\* whichever requests have been served and whichever loops have planned.
C23_OneOpenToolCall ==
    Cardinality({t \in DOMAIN toolCalls : toolCalls[t].status \in {PENDING, RUNNING}}) <= 1

\* C24: a dispatch that fails while fewer than 3 attempts are recorded is a
\* retry: the counter of the ToolCall goes up by one, the same row is PENDING
\* again, no Step or ToolCall row is added, the machine stays in EXECUTE_TOOL,
\* the step counter and Run.status are unchanged and the loop goes on; and no
\* Step ever owns more than one ToolCall.
C24_RetryInPlace ==
    /\ [](\A i \in DOMAIN steps :
            Cardinality({t \in DOMAIN toolCalls : toolCalls[t].step_id = i}) <= 1)
    /\ [][\A p \in Procs :
            (/\ pc[p] = "dispatch"
             /\ last'.p = p
             /\ last'.op \in {"dispatch_retry", "dispatch_exhausted"}
             /\ getAttempts(retry, cur[p].tc) < 3)
            => /\ last'.op = "dispatch_retry"
               /\ getAttempts(retry', cur[p].tc) = getAttempts(retry, cur[p].tc) + 1
               /\ toolCalls'[cur[p].tc].status = PENDING
               /\ Len(toolCalls') = Len(toolCalls)
               /\ steps' = steps
               /\ agent'[p].state_machine.current_state = EXECUTE_TOOL
               /\ agent'[p].current_step_number = agent[p].current_step_number
               /\ runStatus' = runStatus
               /\ pc'[p] = "loop"]_vars

\* the third retry of a ToolCall has been scheduled: still the Run's only row
C24_Witness ==
    /\ last.op = "dispatch_retry"
    /\ getAttempts(retry, last.tc) = 3
    /\ toolCalls[last.tc].streak = 3
    /\ toolCalls[last.tc].status = PENDING
    /\ Len(toolCalls) = 1
    /\ StateOf(last.p) = EXECUTE_TOOL

\* C25: a loop iteration that begins with the step counter at 10 or more, in a
\* state that is neither terminal nor the pause, runs no handler: the helper
\* moves the machine to FAILED and appends the FAILED Step with the reason
\* "Max steps (10) exceeded", nothing is planned or dispatched, and the
\* helper's second commit leaves Run.status FAILED.  No Step created by a PLAN
\* iteration is numbered above 10.
C25_StepCeiling ==
    /\ [](\A i \in DOMAIN steps : steps[i].origin = "plan" => steps[i].step_number <= 10)
    /\ []((/\ last.op = "failed"
           /\ last.arg = "Max steps (10) exceeded"
           /\ pc[last.p] = "loop") => runStatus = FAILED)
    /\ [][\A p \in Procs :
            (/\ pc[p] = "loop"
             /\ agent[p].current_step_number >= 10
             /\ agent[p].state_machine.current_state \notin {DONE, FAILED, NEEDS_APPROVAL}
             /\ <<pc[p], agent[p]>>' # <<pc[p], agent[p]>>)
            => /\ last' = Did(p, "failed", Len(steps) + 1, 0, "Max steps (10) exceeded",
                              agent[p].current_step_number)
               /\ agent'[p].state_machine.current_state = FAILED
               /\ agent'[p].current_step_number = agent[p].current_step_number
               /\ Len(steps') = Len(steps) + 1
               /\ steps'[Len(steps')].state = FAILED
               /\ steps'[Len(steps')].reasoning = "Max steps (10) exceeded"
               /\ toolCalls' = toolCalls
               /\ retry' = retry]_vars

\* the tenth PLAN entry has left a ToolCall to execute and the ceiling has
\* ended the Run instead
C25_Witness ==
    /\ last.op = "failed"
    /\ last.arg = "Max steps (10) exceeded"
    /\ last.n = 10
    /\ pc[last.p] = "loop"
    /\ runStatus = FAILED
    /\ \E i \in DOMAIN steps : steps[i].origin = "plan" /\ steps[i].step_number = 10
    /\ toolCalls[Len(toolCalls)].status = PENDING

\* C26: while a thread is inside run_agent its step counter changes only in an
\* iteration that begins in PLAN, and then by exactly +1; a PLAN iteration
\* below the ceiling always adds 1; iterations beginning in EXECUTE_TOOL (every
\* retry included), EVALUATE or NEEDS_APPROVAL, the ceiling check and the
\* FAILED helper leave it unchanged.
C26_CounterMovesOnlyInPlan ==
    [][\A p \in Procs :
        (InLoop(p) /\ pc'[p] # "idle") =>
            /\ (agent'[p].current_step_number # agent[p].current_step_number
                  => /\ pc[p] = "loop"
                     /\ agent[p].state_machine.current_state = PLAN
                     /\ agent'[p].current_step_number = agent[p].current_step_number + 1)
            /\ ((/\ pc[p] = "loop"
                 /\ agent[p].state_machine.current_state = PLAN
                 /\ agent[p].current_step_number < 10
                 /\ <<pc[p], agent[p]>>' # <<pc[p], agent[p]>>)
                => agent'[p].current_step_number = agent[p].current_step_number + 1)]_vars

\* two PLAN entries, an evaluation, four failed dispatches and the helper:
\* the counter is 2 and the helper's Step is numbered 3
C26_Witness ==
    /\ last.op = "dispatch_exhausted"
    /\ toolCalls[last.tc].streak = 4
    /\ StepNo(last.p) = 2
    /\ StateOf(last.p) = FAILED
    /\ steps[Len(steps)].origin = "helper"
    /\ steps[Len(steps)].step_number = 3
    /\ Cardinality({i \in DOMAIN steps : steps[i].origin = "plan"}) = 2

\* C27: once a transition has raised in a handler (the gate's is the only one
\* that does, and everNeedsApproval records it), the Run is FAILED whenever no
\* request is being served; the handler step in which transition() raises
\* sends the thread through the FAILED helper to the re-raise: the machine is
\* FAILED, the FAILED Step carries the error, no attempt is recorded and the
\* loop does not go on; a thread on its way to the re-raise only commits and
\* raises; and a dispatch that is retried or given up is one whose tool timed
\* out or raised, never one whose tool returned.
C27_InvalidTransitionIsFatal ==
    /\ []((everNeedsApproval /\ \A p \in DOMAIN pc : pc[p] = "idle") => runStatus = FAILED)
    /\ [](last.op \in {"dispatch_retry", "dispatch_exhausted"} =>
            /\ last.arg \in {"timeout", "error"}
            /\ toolCalls[last.tc].outputs # "result")
    /\ [][\A p \in Procs :
            /\ (/\ last'.p = p
                /\ last'.op = "fault"
                /\ last'.arg = "Unexpected error: Invalid transition"
                /\ last' # last)
               => /\ pc'[p] = "tf_raise"
                  /\ agent'[p].state_machine.current_state = FAILED
                  /\ steps'[Len(steps')].state = FAILED
                  /\ steps'[Len(steps')].reasoning = "Unexpected error: Invalid transition"
                  /\ retry' = retry
            /\ (pc[p] = "tf_raise" => pc'[p] \in {"tf_raise", "raising"})
            /\ (pc[p] = "raising" => pc'[p] \in {"raising", "idle"})
            /\ ((pc[p] = "raising" /\ pc'[p] = "idle") => last'.op = "raised")]_vars

\* C28: when run_agent has raised, Run.status is FAILED and exactly one Step of
\* the Run is in FAILED with the fault's message as reasoning.
C28_FaultRecordedOnce ==
    last.op = "raised" =>
        /\ runStatus = FAILED
        /\ Cardinality({i \in DOMAIN steps :
                           /\ steps[i].state = FAILED
                           /\ steps[i].reasoning \in {"Unexpected error: Invalid transition",
                                                      "Unexpected error: TypeError"}}) = 1

\* C29: a failure a handler detects goes through the helper: the machine is
\* FAILED, exactly one Step is added in FAILED, the last one, numbered one
\* above the step counter and carrying a reason that is neither missing nor
\* empty; the helper's second commit sets Run.status to FAILED; and the loop
\* then returns (it does not raise) with the Run FAILED.
C29_HandlerFailureRecorded ==
    [][\A p \in Procs :
        /\ (/\ last'.p = p
            /\ last'.op \in {"failed", "dispatch_exhausted"}
            /\ last' # last)
           => /\ pc'[p] = "tf_return"
              /\ agent'[p].state_machine.current_state = FAILED
              /\ {i \in DOMAIN steps' \ DOMAIN steps : steps'[i].state = FAILED}
                    = {Len(steps')}
              /\ steps'[Len(steps')].step_number = agent'[p].current_step_number + 1
              /\ steps'[Len(steps')].reasoning \notin {"", None}
        /\ (pc[p] = "tf_return" /\ pc'[p] # "tf_return")
           => (pc'[p] = "loop" /\ runStatus' = FAILED)
        /\ (/\ pc[p] = "loop"
            /\ agent[p].state_machine.current_state = FAILED
            /\ pc'[p] # "loop")
           => /\ last' = Did(p, "returned", 0, 0, FAILED, agent[p].current_step_number)
              /\ runStatus' = FAILED]_vars

\* C30: a step of one Run on the retry store (a read, a SETEX, a DELETE)
\* leaves the attempts read for every ToolCall of every other Run as they
\* were, while it has its effect on the Run's own counter: a SETEX makes the
\* counter one more than the attempts read before the dispatch, a DELETE makes
\* it read 0.
C30_RetryKeysPerRun ==
    [][\A p \in Procs :
        /\ last'.p # p =>
              \A t \in ToolCallIdsOf(p) :
                  getAttempts(retry', retry_key(RunIdOf(p), t))
                      = getAttempts(retry, retry_key(RunIdOf(p), t))
        /\ (last'.p = p /\ last'.op = "setex") =>
              getAttempts(retry', retry_key(RunIdOf(p), cur[p].tc)) = cur[p].step + 1
        /\ (last'.p = p /\ last'.op = "delete") =>
              getAttempts(retry', retry_key(RunIdOf(p), cur[p].tc)) = 0]_vars

\* Run 1 has recorded three attempts for its ToolCall 11 while Run 11 has
\* recorded one for its ToolCall 1, and Run 1 has just cleared another counter
C30_Witness ==
    /\ last.op = "delete"
    /\ last.p = 1
    /\ getAttempts(retry, retry_key(1, 11)) = 3
    /\ getAttempts(retry, retry_key(11, 1)) = 1
    /\ 1 \in ToolCallIdsOf(2)
    /\ 11 \in ToolCallIdsOf(1)

\* C31: when the NEEDS_APPROVAL handler runs for a current Step that has no
\* ToolCall, it returns with the machine in PLAN, without raising and without
\* failing the Run or adding a Step.
C31_NoToolCallFallsBackToPlan ==
    [][\A p \in Procs :
        (last'.p = p /\ last'.op = "no_tool_call" /\ last' # last)
        => /\ last'.arg = "returned"
           /\ agent'[p].state_machine.current_state = PLAN
           /\ runStatus' = runStatus
           /\ steps' = steps]_vars

\* C32: a ToolCall is dispatched at most 4 times by the run loop: every
\* dispatch is preceded by at most 3 failed ones, a ToolCall whose 4 dispatches
\* failed is FAILED, and the stored retry counter of a ToolCall is between 0
\* and 3 and equals the number of its failed dispatches, capped at 3, as long
\* as none has succeeded.
C32_AtMostFourDispatches ==
    /\ \A k \in DOMAIN retry : retry[k] \in 0..3
    /\ \A t \in DOMAIN toolCalls :
        /\ toolCalls[t].streak <= 4
        /\ (toolCalls[t].streak = 4 => toolCalls[t].status = FAILED)
        /\ (toolCalls[t].status # SUCCESS =>
               (IF t \in DOMAIN retry THEN retry[t] ELSE 0)
                   = (IF toolCalls[t].streak > 3 THEN 3 ELSE toolCalls[t].streak))
    /\ (last.op \in {"dispatch_success", "dispatch_retry", "dispatch_exhausted",
                     "dispatch_blocked"} => last.n <= 3)

\* the fourth dispatch of a ToolCall has failed: the counter stays at 3, the
\* ToolCall is FAILED
C32_Witness ==
    /\ last.op = "dispatch_exhausted"
    /\ last.n = 3
    /\ toolCalls[last.tc].streak = 4
    /\ toolCalls[last.tc].status = FAILED
    /\ last.tc \in DOMAIN retry
    /\ retry[last.tc] = 3

\* C33: a request (execute or approve) that arrives while Run.status is DONE
\* or FAILED leaves Run.status as it is.
C33_TerminalStatusAbsorbing ==
    [][(runStatus \in {DONE, FAILED} /\ calls' = calls + 1)
       => runStatus' = runStatus]_vars

\* C34: of the approve requests served for a paused Run, at most one is
\* executing the gated tool at any time and at most one has its run loop
\* resumed at any time.
C34_OneApprovalWins ==
    /\ Cardinality({p \in DOMAIN pc : p # Executor /\ pc[p] = "approving"}) <= 1
    /\ Cardinality({p \in DOMAIN pc : p # Executor /\ InLoop(p)}) <= 1

\* C35: whenever Run.status is DONE or FAILED, no ToolCall of the Run is
\* PENDING or RUNNING.
C35_TerminalRunHasNoOpenToolCall ==
    runStatus \in {DONE, FAILED} =>
        \A t \in DOMAIN toolCalls : toolCalls[t].status \notin {PENDING, RUNNING}

\* C36: a ToolCall has outputs, and an execution time, exactly when its status
\* is SUCCESS.
C36_OutputsIffSuccess ==
    \A t \in DOMAIN toolCalls :
        /\ (toolCalls[t].outputs # "null") <=> (toolCalls[t].status = SUCCESS)
        /\ toolCalls[t].executed_at <=> (toolCalls[t].status = SUCCESS)

\* C37: once a ToolCall is SUCCESS or FAILED, no step changes its status, its
\* outputs or its execution time, and no dispatch or approved execution of its
\* tool is recorded for it any more.
C37_ToolCallOutcomeFinal ==
    [][\A t \in DOMAIN toolCalls :
        toolCalls[t].status \in {SUCCESS, FAILED}
        => /\ toolCalls'[t].status = toolCalls[t].status
           /\ toolCalls'[t].outputs = toolCalls[t].outputs
           /\ toolCalls'[t].executed_at = toolCalls[t].executed_at
           /\ ~(/\ last' # last
                /\ last'.tc = t
                /\ last'.op \in {"execute_begin", "dispatch_success", "dispatch_retry",
                                 "dispatch_exhausted", "dispatch_blocked",
                                 "approved", "approved_tool_raised"})]_vars

\* C38: whenever Run.status is FAILED, exactly one Step of the Run is in state
\* FAILED.
C38_FailedRunHasOneFailedStep ==
    runStatus = FAILED =>
        Cardinality({i \in DOMAIN steps : steps[i].state = FAILED}) = 1

\* C39: the history of a machine ends with its current state and every
\* adjacent pair of it is a transition of the table, for a stand-alone machine
\* and for the machine of every Agent (fresh, rehydrated or resumed after an
\* approval); a transition call leaves the earlier history as a prefix of the
\* later one.
C39_HistoryTracksMachine ==
    /\ [](LET tracks(m) ==
                /\ m.transition_history # <<>>
                /\ m.transition_history[Len(m.transition_history)] = m.current_state
                /\ \A i \in 1..(Len(m.transition_history) - 1) :
                      can_transition(m.transition_history[i], m.transition_history[i + 1])
           IN tracks(sm) /\ \A p \in DOMAIN agent : tracks(agent[p].state_machine))
    /\ [][smCall'.op = "transition" =>
            /\ Len(sm'.transition_history) >= Len(sm.transition_history)
            /\ SubSeq(sm'.transition_history, 1, Len(sm.transition_history))
                  = sm.transition_history]_vars

\* C40: FAILED is in the table entry of PLAN, EXECUTE_TOOL, EVALUATE and
\* NEEDS_APPROVAL, and whatever state an Agent's machine is in, the FAILED
\* helper does not raise: from a non-terminal state it moves the machine to
\* FAILED, from a terminal one it returns without a transition.
C40_HelperNeverRaises ==
    /\ \A s \in {PLAN, EXECUTE_TOOL, EVALUATE, NEEDS_APPROVAL} : can_transition(s, FAILED)
    /\ \A p \in DOMAIN agent : \A reason \in Reasons :
        LET r == transition_to_failed(agent[p], steps, reason) IN
        /\ ~r.raised
        /\ r.agent.state_machine.current_state =
              (IF agent[p].state_machine.current_state = DONE THEN DONE ELSE FAILED)
        /\ r.noop <=> agent[p].state_machine.current_state \in {DONE, FAILED}

\* the helper has failed an Agent whose machine was in NEEDS_APPROVAL
C40_Witness ==
    /\ last.op = "helper"
    /\ LET h == agent[Executor].state_machine.transition_history IN
       /\ Len(h) >= 2
       /\ h[Len(h)] = FAILED
       /\ h[Len(h) - 1] = NEEDS_APPROVAL
    /\ steps # <<>>
    /\ steps[Len(steps)].state = FAILED
    /\ runStatus = FAILED

====
